---- MODULE Spec2Model ----
(***************************************************************************)
(* Model of sphinx_tosca/domain.py: the TOSCA Sphinx domain.               *)
(*                                                                         *)
(* Two specifications live in this module.                                 *)
(*   Spec       the type registry of one build environment: the node_type  *)
(*              directive (ToscaNodeType.run), ToscaDomain.clear_doc,      *)
(*              merge_domaindata, resolve_xref and get_objects, called in  *)
(*              any order by the host.                                     *)
(*   GroupSpec  the pure function _group_fields applied to bounded lists   *)
(*              of (field_name, field_body) pairs.                         *)
(*                                                                         *)
(* Docutils nodes are records with a "tag" (the node class) and, for       *)
(* elements, "children" (the child list).  A Python dict is an association *)
(* list (a sequence of [key, value] records in insertion order), so that   *)
(* "one entry per key" is something the model checks rather than assumes.  *)
(* A text is a sequence of chunks; the chunk " " is whitespace and every   *)
(* other chunk is a run of non-whitespace characters.                      *)
(***************************************************************************)
EXTENDS Naturals, Sequences, FiniteSets, TLC

VARIABLES
    objects,    \* env.domaindata["tosca"]["objects"]: association list name -> ToscaObject
    docname,    \* env.docname: the document being read, NoDoc before the first read
    ids,        \* self.state.document.ids of the document being read (its keys)
    warnings,   \* what the reporter of the document being read received, in order
    last,       \* the last call made by the host: its arguments, what it returned, and
                \* (clear_doc, merge_domaindata) whether it repeats the call before it
    fields,     \* GroupSpec: the argument of _group_fields
    grouped     \* GroupSpec: what _group_fields returned for it, NotCalled before

vars == <<objects, docname, ids, warnings, last, fields, grouped>>

----------------------------------------------------------------------------
(* Bounds and input sets *)

MaxFields == 3

TypeNames == {"Compute", "Storage"}
DocNames == {"index", "nodes"}
NoDoc == "<none>"
None == [tag |-> "None"]
NotCalled == [tag |-> "NotCalled"]

----------------------------------------------------------------------------
(* Python built-ins used by the module *)

\* key in dict
DictHas(d, k) == \E i \in 1..Len(d) : d[i].key = k

\* dict.get(key): the value of the first item with that key, None when absent
DictGet(d, k) ==
    IF DictHas(d, k)
    THEN d[CHOOSE i \in 1..Len(d) : d[i].key = k /\ \A j \in 1..(i-1) : d[j].key # k].value
    ELSE None

\* dict[key] = value: replaces the value in place, or appends a new item
DictSet(d, k, v) ==
    IF DictHas(d, k)
    THEN [i \in 1..Len(d) |-> IF d[i].key = k THEN [key |-> k, value |-> v] ELSE d[i]]
    ELSE Append(d, [key |-> k, value |-> v])

\* str.join of the chunks of a text
RECURSIVE Concat(_)
Concat(chunks) ==
    IF chunks = <<>> THEN "" ELSE Head(chunks) \o Concat(Tail(chunks))

\* str.split(): the maximal runs of non-whitespace chunks, each joined into a token
RECURSIVE SplitFrom(_, _, _)
SplitFrom(text, run, acc) ==
    IF text = <<>>
    THEN IF run = <<>> THEN acc ELSE Append(acc, Concat(run))
    ELSE IF Head(text) = " "
         THEN SplitFrom(Tail(text), <<>>, IF run = <<>> THEN acc ELSE Append(acc, Concat(run)))
         ELSE SplitFrom(Tail(text), Append(run, Head(text)), acc)

Split(text) == SplitFrom(text, <<>>, <<>>)

----------------------------------------------------------------------------
(* Module-level data *)

SECTION_MAPPING ==
    << <<"parents", "Parents">>,
       <<"property", "Properties">>,
       <<"attribute", "Attributes">>,
       <<"relationship", "Relationships">> >>

ToscaObject(doc, typ) == [doc |-> doc, typ |-> typ]

----------------------------------------------------------------------------
(* Docutils and Sphinx nodes *)

Text(token) == <<token>>

paragraph(text) == [tag |-> "paragraph", text |-> text]

field_name(text) == [tag |-> "field_name", text |-> text]

field_body(children) == [tag |-> "field_body", children |-> children]

field_list(children) == [tag |-> "field_list", children |-> children]

field(name, body) == [tag |-> "field", children |-> <<name, body>>]

desc_content(children) == [tag |-> "desc_content", children |-> children]

\* Element.append(child)
NodeAppend(node, child) == [node EXCEPT !.children = Append(@, child)]

\* env.doc2path(docname): the source file of a document
doc2path(doc) == "/src/" \o doc \o ".rst"

\* sphinx.util.nodes.make_refnode(builder, fromdocname, todocname, targetid, child, title)
make_refnode(fromdocname, todocname, targetid, title) ==
    [tag |-> "reference", fromdoc |-> fromdocname, todoc |-> todocname,
     anchor |-> targetid, reftitle |-> title]

----------------------------------------------------------------------------
(* Content normalizer *)

\* _split_content(node): <<content, fields>>
RECURSIVE SplitChildren(_, _, _)
SplitChildren(children, content, flds) ==
    IF children = <<>> THEN <<content, flds>>
    ELSE LET child == Head(children) IN
         IF child.tag = "field_list"
         THEN SplitChildren(Tail(children), content, flds \o child.children)
         ELSE SplitChildren(Tail(children), NodeAppend(content, child), flds)

_split_content(node) == SplitChildren(node.children, desc_content(<<>>), <<>>)

\* content[key] of the defaultdict(nodes.field_list)
DefaultGet(content, key) ==
    IF DictHas(content, key) THEN DictGet(content, key) ELSE field_list(<<>>)

IndexError == [tag |-> "IndexError"]

\* Mutant: a section key outside SECTION_MAPPING raises (a lookup of its label)
GroupOneKnownKeys(content, fld) ==
    LET name == fld.children[1]
        body == fld.children[2]
        field_parts == Split(name.text)
    IN  IF Len(field_parts) = 0 \/ \A k \in 1..Len(SECTION_MAPPING) :
                                       SECTION_MAPPING[k][1] # field_parts[1]
        THEN [raised |-> TRUE, content |-> content]
        ELSE IF Len(field_parts) > 1
             THEN [raised |-> FALSE,
                   content |-> DictSet(content, field_parts[1],
                                   NodeAppend(DefaultGet(content, field_parts[1]),
                                              field(field_name(Text(field_parts[2])), body)))]
             ELSE [raised |-> FALSE, content |-> DictSet(content, field_parts[1], body)]

\* One pass of the first loop of _group_fields: [raised, content] after one field.
\* field_parts[0] of an empty token list raises IndexError.
GroupOne(content, fld) ==
    LET name == fld.children[1]
        body == fld.children[2]
        field_parts == Split(name.text)
    IN  IF Len(field_parts) > 1
        THEN [raised |-> FALSE,
              content |-> DictSet(content, field_parts[1],
                              NodeAppend(DefaultGet(content, field_parts[1]),
                                         field(field_name(Text(field_parts[2])), body)))]
        ELSE IF Len(field_parts) = 0
             THEN [raised |-> TRUE, content |-> content]
             ELSE [raised |-> FALSE, content |-> DictSet(content, field_parts[1], body)]

\* The first loop of _group_fields, stopping where a pass raised
RECURSIVE GroupContent(_, _)
GroupContent(flds, content) ==
    IF flds = <<>> THEN [raised |-> FALSE, content |-> content]
    ELSE LET one == GroupOne(content, Head(flds)) IN
         IF one.raised THEN one ELSE GroupContent(Tail(flds), one.content)

\* Mutant: the section's content is always wrapped in a new field_body
EmitOneAlwaysWrap(content, result, section) ==
    LET items == DefaultGet(content, section[1]) IN
    IF Len(items.children) > 0
    THEN NodeAppend(result, field(field_name(Text(section[2])), field_body(<<items>>)))
    ELSE result

\* One pass of the second loop of _group_fields: the result after one section
EmitOne(content, result, section) ==
    LET items == DefaultGet(content, section[1]) IN
    IF Len(items.children) > 0
    THEN LET body == IF items.tag = "field_body" THEN items ELSE field_body(<<items>>)
         IN  NodeAppend(result, field(field_name(Text(section[2])), body))
    ELSE result

RECURSIVE EmitSections(_, _, _)
EmitSections(content, sections, result) ==
    IF sections = <<>> THEN result
    ELSE EmitSections(content, Tail(sections), EmitOne(content, result, Head(sections)))

\* Mutant: the sections are emitted in the order the content dict got its keys
_group_fields_content_order(flds) ==
    LET loop == GroupContent(flds, <<>>)
        known == SelectSeq(loop.content,
                           LAMBDA item : \E k \in 1..Len(SECTION_MAPPING) :
                                             SECTION_MAPPING[k][1] = item.key)
        sections == [i \in 1..Len(known) |->
                        SECTION_MAPPING[CHOOSE k \in 1..Len(SECTION_MAPPING) :
                                            SECTION_MAPPING[k][1] = known[i].key]]
    IN  IF loop.raised THEN IndexError
        ELSE EmitSections(loop.content, sections, field_list(<<>>))

\* _group_fields(fields): the resulting field_list, or IndexError
_group_fields(flds) ==
    LET loop == GroupContent(flds, <<>>) IN
    IF loop.raised THEN IndexError
    ELSE EmitSections(loop.content, SECTION_MAPPING, field_list(<<>>))

----------------------------------------------------------------------------
(* Inputs of the registry specification *)

ObjTypes == {"node_type"}

\* The directive occurrences of a document: self.name (with the domain prefix, or bare
\* under a default domain) and what nested_parse leaves in dcontent (no content, or
\* prose and one field list)
Occurrences ==
    { [dirname |-> <<"tosca", ":", "node_type">>, parsed |-> << >>],
      [dirname |-> <<"node_type">>,
       parsed |-> << paragraph("A compute node."),
                     field_list(<< field(field_name(<<"parents">>),
                                         field_body(<<paragraph("Root")>>)),
                                   field(field_name(<<"property", " ", "cpu">>),
                                         field_body(<<paragraph("Core count")>>)) >>) >>] }

\* Targets of a cross-reference: the declared names and one that differs in case only
Targets == TypeNames \cup {"compute"}

\* The objects tables another worker can hand to merge_domaindata
OtherItems == [key : TypeNames, value : [doc : DocNames, typ : ObjTypes]]

OtherTables ==
    { t \in UNION { [1..n -> OtherItems] : n \in 0..Cardinality(TypeNames) } :
        \A i, j \in 1..Len(t) : i # j => t[i].key # t[j].key }

----------------------------------------------------------------------------
(* The node_type directive *)

\* self.name.split(":", 1), or ("", self.name) without a colon: <<domain, objtype>>
RECURSIVE SplitColon(_, _)
SplitColon(name, before) ==
    IF name = <<>> THEN <<"", Concat(before)>>
    ELSE IF Head(name) = ":" THEN <<Concat(before), Concat(Tail(name))>>
         ELSE SplitColon(Tail(name), Append(before, Head(name)))

DomainAndObjtype(name) == SplitColon(name, <<>>)

\* msg.format(name, env.doc2path(objects[name].doc))
DuplicateMessage(name, doc) ==
    "duplicate TOSCA type " \o name \o ", other in " \o doc2path(doc)

\* Mutant: the warning names the document being read, not the earlier owner
DuplicateWarningsCurrentDoc(objs, name) ==
    IF DictHas(objs, name)
    THEN << DuplicateMessage(name, docname) >>
    ELSE << >>

\* Mutant: no warning when the earlier declaration is in the document being read
DuplicateWarningsOtherDoc(objs, name) ==
    IF DictHas(objs, name) /\ DictGet(objs, name).doc # docname
    THEN << DuplicateMessage(name, DictGet(objs, name).doc) >>
    ELSE << >>

\* The warnings of one run: one when the name is already in the objects table
DuplicateWarnings(objs, name) ==
    IF DictHas(objs, name)
    THEN << DuplicateMessage(name, DictGet(objs, name).doc) >>
    ELSE << >>

\* Mutant: the first registration of a name is kept
RegisteredKeepFirst(objs, name, doc, objtype) ==
    IF DictHas(objs, name) THEN objs ELSE DictSet(objs, name, ToscaObject(doc, objtype))

\* objects[name] = ToscaObject(env.docname, objtype)
Registered(objs, name, doc, objtype) == DictSet(objs, name, ToscaObject(doc, objtype))

\* The nodes run returns: [indexnode, description]
RunNodes(name, dirname, dcontent, noted) ==
    LET dname == [tag |-> "desc_name", text |-> name]
        signature == [tag |-> "desc_signature",
                      names |-> IF noted THEN <<name>> ELSE <<>>,
                      ids |-> IF noted THEN <<name>> ELSE <<>>,
                      first |-> noted,
                      children |-> <<dname, dcontent>>]
        description == [tag |-> "desc",
                        domain |-> DomainAndObjtype(dirname)[1],
                        objtype |-> DomainAndObjtype(dirname)[2],
                        children |-> <<signature>>]
        indexnode == [tag |-> "index", entries |-> << <<"single", name, name, "", None>> >>]
    IN  <<indexnode, description>>

\* ToscaNodeType.run for the directive `dirname` with argument `name`, whose content
\* parses to `parsed`, in the document being read
Run(name, dirname, parsed) ==
    /\ docname # NoDoc
    /\ LET split == _split_content(desc_content(parsed))
           group == _group_fields(split[2])
           noted == name \notin ids
           warned == IF noted THEN DuplicateWarnings(objects, name) ELSE << >>
       IN  IF group.tag = "IndexError"
           THEN /\ last' = [op |-> "run", name |-> name, raised |-> TRUE]
                /\ UNCHANGED <<objects, ids, warnings>>
           ELSE /\ ids' = IF noted THEN ids \cup {name} ELSE ids
                /\ warnings' = warnings \o warned
                /\ objects' = IF noted
                              THEN Registered(objects, name, docname,
                                              DomainAndObjtype(dirname)[2])
                              ELSE objects
                /\ last' = [op |-> "run", name |-> name, raised |-> FALSE,
                            noted |-> noted, warned |-> warned,
                            ret |-> RunNodes(name, dirname,
                                             NodeAppend(split[1], group), noted)]
    /\ UNCHANGED <<docname, fields, grouped>>

\* The host starts reading document d: env.docname is d, and the new document has a
\* reporter that received nothing yet and an ID table holding the ids its other
\* targets claim
ReadDoc(d, claimed) ==
    /\ docname' = d
    /\ ids' = claimed
    /\ warnings' = << >>
    /\ last' = [op |-> "read_doc", docname |-> d]
    /\ UNCHANGED <<objects, fields, grouped>>

----------------------------------------------------------------------------
(* ToscaDomain *)

initial_data == << >>

\* Mutant: the comparison is inverted, the entries of the document are the ones kept
clear_doc_inverted(objs, doc) == SelectSeq(objs, LAMBDA item : item.value.doc = doc)

\* The objects table after clear_doc(docname)
clear_doc(objs, doc) == SelectSeq(objs, LAMBDA item : item.value.doc # doc)

\* Mutant: every incoming entry is adopted, whoever owns its document
RECURSIVE merge_domaindata_unfiltered(_, _, _)
merge_domaindata_unfiltered(objs, docnames, otherdata) ==
    IF otherdata = <<>> THEN objs
    ELSE merge_domaindata_unfiltered(DictSet(objs, Head(otherdata).key, Head(otherdata).value),
                                     docnames, Tail(otherdata))

\* Mutant: an incoming entry that conflicts with a local one of another document
\* drops the local entry instead of replacing it
RECURSIVE merge_domaindata_drop_conflict(_, _, _)
merge_domaindata_drop_conflict(objs, docnames, otherdata) ==
    IF otherdata = <<>> THEN objs
    ELSE LET name == Head(otherdata).key
             obj == Head(otherdata).value
             conflict == DictHas(objs, name) /\ DictGet(objs, name).doc # obj.doc
         IN  merge_domaindata_drop_conflict(
                 IF obj.doc \in docnames
                 THEN IF conflict
                      THEN SelectSeq(objs, LAMBDA item : item.key # name)
                      ELSE DictSet(objs, name, obj)
                 ELSE objs,
                 docnames, Tail(otherdata))

\* The objects table after merge_domaindata(docnames, otherdata)
RECURSIVE merge_domaindata(_, _, _)
merge_domaindata(objs, docnames, otherdata) ==
    IF otherdata = <<>> THEN objs
    ELSE LET name == Head(otherdata).key
             obj == Head(otherdata).value
         IN  merge_domaindata(IF obj.doc \in docnames THEN DictSet(objs, name, obj) ELSE objs,
                              docnames, Tail(otherdata))

\* Mutant: the link points at the referring document
resolve_xref_fromdoc(objs, fromdoc, target) ==
    LET obj == DictGet(objs, target) IN
    IF obj = None THEN None
    ELSE make_refnode(fromdoc, fromdoc, target, target)

\* resolve_xref(env, fromdoc, builder, typ, target, node, cont)
resolve_xref(objs, fromdoc, target) ==
    LET obj == DictGet(objs, target) IN
    IF obj = None THEN None
    ELSE make_refnode(fromdoc, obj.doc, target, target)

\* list(get_objects())
get_objects(objs) ==
    [i \in 1..Len(objs) |->
        <<objs[i].key, objs[i].key, objs[i].value.typ, objs[i].value.doc, objs[i].key, 1>>]

ClearDoc(d) ==
    /\ objects' = clear_doc(objects, d)
    /\ last' = [op |-> "clear_doc", docname |-> d,
                again |-> last.op = "clear_doc" /\ last.docname = d]
    /\ UNCHANGED <<docname, ids, warnings, fields, grouped>>

MergeDomaindata(docnames, otherdata) ==
    /\ objects' = merge_domaindata(objects, docnames, otherdata)
    /\ last' = [op |-> "merge_domaindata", docnames |-> docnames, otherdata |-> otherdata,
                again |-> /\ last.op = "merge_domaindata"
                          /\ last.docnames = docnames
                          /\ last.otherdata = otherdata]
    /\ UNCHANGED <<docname, ids, warnings, fields, grouped>>

ResolveXref(fromdoc, target) ==
    /\ last' = [op |-> "resolve_xref", fromdoc |-> fromdoc, target |-> target,
                ret |-> resolve_xref(objects, fromdoc, target)]
    /\ UNCHANGED <<objects, docname, ids, warnings, fields, grouped>>

GetObjects ==
    /\ last' = [op |-> "get_objects", ret |-> get_objects(objects)]
    /\ UNCHANGED <<objects, docname, ids, warnings, fields, grouped>>

----------------------------------------------------------------------------
(* The registry specification *)

Init ==
    /\ objects = initial_data
    /\ docname = NoDoc
    /\ ids = {}
    /\ warnings = << >>
    /\ last = [op |-> "init"]
    /\ fields = << >>
    /\ grouped = NotCalled

Next ==
    \/ \E d \in DocNames, claimed \in SUBSET TypeNames : ReadDoc(d, claimed)
    \/ \E name \in TypeNames, occ \in Occurrences : Run(name, occ.dirname, occ.parsed)
    \/ \E d \in DocNames : ClearDoc(d)
    \/ \E docnames \in SUBSET DocNames, otherdata \in OtherTables :
          MergeDomaindata(docnames, otherdata)
    \/ \E fromdoc \in DocNames, target \in Targets : ResolveXref(fromdoc, target)
    \/ GetObjects

Spec == Init /\ [][Next]_vars

----------------------------------------------------------------------------
(* The specification of _group_fields as a function of its argument *)

\* Field names as the parser or a caller can hand them over: whole-section names,
\* "section subname" names (one with a run of two spaces and a third token), names
\* with a section key outside SECTION_MAPPING, and a name with no token at all
FieldNameTexts ==
    { <<"parents">>,
      <<"parents", " ", "base">>,
      <<"property", " ", "cpu">>,
      <<"prop", "erty", " ", " ", "mem", " ", "size">>,
      <<"attribute", " ", "ip">>,
      <<"relationship">>,
      <<"relationship", " ", "host">>,
      <<"requirements", " ", "cpu">>,
      <<"requirements">>,
      <<" ">> }

\* Field bodies: one with no child node, one with a paragraph
FieldBodies == { field_body(<< >>), field_body(<<paragraph("text")>>) }

FieldInputs == { field(field_name(t), b) : t \in FieldNameTexts, b \in FieldBodies }

FieldLists == UNION { [1..n -> FieldInputs] : n \in 0..MaxFields }

GroupInit ==
    /\ fields \in FieldLists
    /\ grouped = NotCalled
    /\ objects = initial_data
    /\ docname = NoDoc
    /\ ids = {}
    /\ warnings = << >>
    /\ last = [op |-> "init"]

GroupFields ==
    /\ grouped = NotCalled
    /\ grouped' = _group_fields(fields)
    /\ UNCHANGED <<objects, docname, ids, warnings, last, fields>>

GroupNext == GroupFields

GroupSpec == GroupInit /\ [][GroupNext]_vars

----------------------------------------------------------------------------
(* Vocabulary of the properties *)

\* The items of a table
Range(s) == {s[i] : i \in 1..Len(s)}

\* The keys of a table
DictKeys(d) == {d[i].key : i \in 1..Len(d)}

\* The indices of the items of a table that have the given key
ItemsOf(objs, name) == {i \in 1..Len(objs) : objs[i].key = name}

\* At most one item per key
UniqueKeys(objs) == \A i, j \in 1..Len(objs) : objs[i].key = objs[j].key => i = j

\* The last call was a run that got past the ID-table check and returned
RanAndNoted(call) == call.op = "run" /\ ~call.raised /\ call.noted

\* The labels of the top-level fields of a field list
Labels(list) ==
    [i \in 1..Len(list.children) |-> Concat(list.children[i].children[1].text)]

SectionKeys == {SECTION_MAPPING[k][1] : k \in 1..Len(SECTION_MAPPING)}

SectionLabels == {SECTION_MAPPING[k][2] : k \in 1..Len(SECTION_MAPPING)}

\* The place of a label in the fixed order
Place(label) == CHOOSE k \in 1..Len(SECTION_MAPPING) : SECTION_MAPPING[k][2] = label

\* The tokens of a field's name
Tokens(fld) == Split(fld.children[1].text)

\* The section keys (first tokens) of the fields of a list
KeysPresent(flds) ==
    {Tokens(flds[i])[1] : i \in {j \in 1..Len(flds) : Tokens(flds[j]) # << >>}}

\* A field list without the fields whose section key is not in SECTION_MAPPING
WithoutUnrecognized(flds) ==
    SelectSeq(flds, LAMBDA fld : Tokens(fld) = << >> \/ Tokens(fld)[1] \in SectionKeys)

----------------------------------------------------------------------------
(* Properties of the registry, checked under Spec *)

\* C1: when run registers name N while reading D2 and the table holds N owned by
\* another document D1, the reporter receives exactly one more warning, which
\* names N and the path of D1, run returns its nodes, and afterwards the table
\* holds one item for N, owned by D2, which get_objects yields once.
C1_DuplicateAcrossDocuments ==
    [][ (/\ RanAndNoted(last')
         /\ DictHas(objects, last'.name)
         /\ DictGet(objects, last'.name).doc # docname)
        => LET N == last'.name
               D1 == DictGet(objects, N).doc
               D2 == docname
               listed == get_objects(objects')
           IN  /\ warnings' = Append(warnings,
                     "duplicate TOSCA type " \o N \o ", other in " \o doc2path(D1))
               /\ Len(last'.ret) = 2
               /\ Cardinality(ItemsOf(objects', N)) = 1
               /\ \A i \in ItemsOf(objects', N) : objects'[i].value.doc = D2
               /\ Cardinality({i \in 1..Len(listed) : listed[i][1] = N}) = 1
               /\ \A i \in 1..Len(listed) : listed[i][1] = N => listed[i][4] = D2
      ]_vars

C1_Witness ==
    /\ RanAndNoted(last)
    /\ \E D1 \in DocNames \ {docname} :
          last.warned = << DuplicateMessage(last.name, D1) >>
    /\ DictGet(objects, last.name).doc = docname

C3_ClearRemovesAllAndOnly ==
    [][ last'.op = "clear_doc"
        => LET d == last'.docname IN
           /\ \A i \in 1..Len(objects') : objects'[i].value.doc # d
           /\ \A i \in 1..Len(objects) :
                 objects[i].value.doc # d => \E j \in 1..Len(objects') : objects'[j] = objects[i]
           /\ \A j \in 1..Len(objects') : \E i \in 1..Len(objects) : objects[i] = objects'[j]
           /\ Len(objects') = Cardinality({i \in 1..Len(objects) : objects[i].value.doc # d})
           /\ (\A i \in 1..Len(objects) : objects[i].value.doc # d) => objects' = objects
           /\ last'.again => objects' = objects
      ]_vars

C3_Witness ==
    /\ last.op = "clear_doc"
    /\ last.docname = docname
    /\ warnings # << >>
    /\ Len(objects) = 1
    /\ objects[1].key \in ids

\* C4: merge_domaindata(S, T) adopts exactly the entries of T whose doc is in S,
\* over any local entry of the same name, and leaves every other name as it was:
\* every item of the table that was not there before has a doc in S.
C4_MergeAdoptsOwnedOnly ==
    [][ last'.op = "merge_domaindata"
        => LET S == last'.docnames
               T == last'.otherdata
               adopted == {T[i].key : i \in {j \in 1..Len(T) : T[j].value.doc \in S}}
           IN  /\ \A i \in 1..Len(T) :
                     T[i].value.doc \in S => DictGet(objects', T[i].key) = T[i].value
               /\ \A name \in (DictKeys(objects) \cup DictKeys(objects') \cup DictKeys(T)) \ adopted :
                     /\ DictHas(objects', name) <=> DictHas(objects, name)
                     /\ DictGet(objects', name) = DictGet(objects, name)
               /\ \A j \in 1..Len(objects') :
                     objects'[j] \notin Range(objects) => objects'[j].value.doc \in S
               /\ UniqueKeys(objects')
      ]_vars

C4_Witness ==
    /\ last.op = "merge_domaindata"
    /\ \E i, j \in 1..Len(last.otherdata) :
          /\ last.otherdata[i].value.doc \in last.docnames
          /\ last.otherdata[j].value.doc \notin last.docnames
          /\ DictGet(objects, last.otherdata[i].key) = last.otherdata[i].value
          /\ ~DictHas(objects, last.otherdata[j].key)

\* C5: a merge_domaindata(S, T) that repeats the call before it leaves the table
\* as the first call left it.
C5_MergeIdempotent ==
    [][ (last'.op = "merge_domaindata" /\ last'.again) => objects' = objects ]_vars

C5_Witness ==
    /\ last.op = "merge_domaindata"
    /\ last.again
    /\ \E i \in 1..Len(last.otherdata) :
          /\ last.otherdata[i].value.doc \in last.docnames
          /\ DictGet(objects, last.otherdata[i].key) = last.otherdata[i].value
    /\ Len(objects) = 2

\* C6: resolve_xref(target) returns None when no item of the table has exactly
\* the key target, and otherwise a link to the doc stored for that name, with the
\* name as its anchor.
C6_ResolveExactLookup ==
    last.op = "resolve_xref"
    => IF ItemsOf(objects, last.target) = {}
       THEN last.ret = None
       ELSE /\ last.ret.tag = "reference"
            /\ last.ret.anchor = last.target
            /\ \A i \in ItemsOf(objects, last.target) : last.ret.todoc = objects[i].value.doc

C6_Witness ==
    /\ last.op = "resolve_xref"
    /\ last.ret # None
    /\ last.ret.todoc # last.fromdoc
    /\ Len(objects) = 2
    /\ objects[1].value.doc # objects[2].value.doc

\* C10: when run, reading B, has just registered N over an entry owned by another
\* document A (with the duplicate warning), clear_doc(B) leaves no entry for N and
\* resolve_xref(N) returns None: A's entry is not restored.
C10_ClearDoesNotRestore ==
    [][ (/\ RanAndNoted(last)
         /\ \E A \in DocNames \ {docname} : last.warned = << DuplicateMessage(last.name, A) >>
         /\ last'.op = "clear_doc"
         /\ last'.docname = docname)
        => /\ ~DictHas(objects', last.name)
           /\ \A fromdoc \in DocNames : resolve_xref(objects', fromdoc, last.name) = None
      ]_vars

C10_Witness ==
    /\ last.op = "clear_doc"
    /\ last.docname = docname
    /\ ~last.again
    /\ \E N \in ids, A \in DocNames \ {docname} :
          /\ warnings = << DuplicateMessage(N, A) >>
          /\ ~DictHas(objects, N)
          /\ objects # << >>

----------------------------------------------------------------------------
(* Properties of _group_fields, checked under GroupSpec *)

\* C7: the top-level fields _group_fields emits carry labels of SECTION_MAPPING in
\* its order (Parents, Properties, Attributes, Relationships), each at most once,
\* whatever the order of the input, and only labels of sections some input field
\* names.
C7_FixedSectionOrder ==
    grouped.tag = "field_list"
    => LET labels == Labels(grouped) IN
       /\ \A i \in 1..Len(labels) : labels[i] \in SectionLabels
       /\ \A i, j \in 1..Len(labels) : i < j => Place(labels[i]) < Place(labels[j])
       /\ \A i \in 1..Len(labels) :
             SECTION_MAPPING[Place(labels[i])][1] \in KeysPresent(fields)
       /\ \A i \in 1..Len(grouped.children) : grouped.children[i].tag = "field"

C7_Witness ==
    /\ Len(fields) = 2
    /\ Tokens(fields[1]) = <<"relationship", "host">>
    /\ Tokens(fields[2]) = <<"parents">>
    /\ grouped.tag = "field_list"
    /\ Labels(grouped) = <<"Parents", "Relationships">>

\* C8 as stated: for the single field named "parents" with any body B, also one
\* with no child node, _group_fields emits exactly one field, labeled "Parents",
\* whose body is B.
C8_ParentsAnyBody ==
    (grouped # NotCalled /\ Len(fields) = 1 /\ Tokens(fields[1]) = <<"parents">>)
    => /\ grouped.tag = "field_list"
       /\ Labels(grouped) = <<"Parents">>
       /\ grouped.children[1].children[2] = fields[1].children[2]

\* C8 as amended: for the single field named "parents" with a body B that has at
\* least one child node, _group_fields emits exactly one field, labeled "Parents",
\* whose body is B; for a body with no child node it emits no field at all.
C8_ParentsNonEmptyBody ==
    (grouped # NotCalled /\ Len(fields) = 1 /\ Tokens(fields[1]) = <<"parents">>)
    => LET B == fields[1].children[2] IN
       /\ grouped.tag = "field_list"
       /\ IF Len(B.children) > 0
          THEN /\ Labels(grouped) = <<"Parents">>
               /\ grouped.children[1].children[2] = B
          ELSE grouped.children = << >>

C8_Witness ==
    /\ Len(fields) = 1
    /\ Tokens(fields[1]) = <<"parents">>
    /\ Len(fields[1].children[2].children) > 0
    /\ grouped.tag = "field_list"
    /\ Len(grouped.children) = 1

\* C9: a field whose section key is not one of parents, property, attribute,
\* relationship contributes nothing to what _group_fields returns and does not make
\* it raise: the outcome is the one for the input without those fields, and
\* _group_fields raises only where a field name has no token at all.
C9_UnrecognizedDropped ==
    grouped # NotCalled
    => /\ grouped = _group_fields(WithoutUnrecognized(fields))
       /\ grouped = IndexError => \E i \in 1..Len(fields) : Tokens(fields[i]) = << >>
       /\ (\A i \in 1..Len(fields) : Tokens(fields[i]) # << >>) => grouped.tag = "field_list"

C9_Witness ==
    /\ Len(fields) = 3
    /\ Tokens(fields[1]) = <<"requirements", "cpu">>
    /\ Tokens(fields[2]) = <<"property", "cpu">>
    /\ Tokens(fields[3]) = <<"requirements">>
    /\ Len(fields[3].children[2].children) > 0
    /\ grouped.tag = "field_list"
    /\ Labels(grouped) = <<"Properties">>

====
